---- MODULE Spec2Model ----
(***************************************************************************)
(* State-machine model of the opencode-chatbot supervisor                  *)
(* (opencode_runner.py), backend client (opencode_client.py) and session   *)
(* orchestrator (bot_core.py).                                             *)
(***************************************************************************)
EXTENDS Integers, Sequences, FiniteSets, TLC

\* ------------------------------------------------------------------ bounds
\* Pids handed out in one behaviour: the processes that exist at the start
\* have the lowest pids and every spawn takes the next pid.
MaxPid == 3
\* Direct calls of the supervisor's public operations in one behaviour.
MaxCalls == 2
\* Session ids the backend hands out in one behaviour.
MaxSess == 2
\* Poll rounds that fit before the deadline of a submit-and-poll delivery.
MaxPolls == 3
\* Messages the backend appends to a session while it is polled.
MaxAppend == 2

\* Sessions the backend lists when a resume-most-recent restart is checked.
MaxListed == 2
\* Activity timestamps run from 1 to MaxTime; 0 stands for a session without one.
MaxTime == 2

\* Characters chosen freely at the front of a subdirectory name.
MaxEdge == 2

\* Parts of a message handed to _extract_final_result.
MaxParts == 3

\* ------------------------------------------------------- program constants
\* range(10) of _kill_port_process
KILL_POLLS == 10
\* range(15) of restart_opencode
RESTART_HEALTH_POLLS == 15
\* range(10) of ensure_opencode_running
ENSURE_HEALTH_POLLS == 10
SIGTERM == 15
SIGKILL == 9
\* limit=10 of the _get_messages calls of send_message_async_poll
MSG_LIMIT == 10

\* len(name) > 64 of _validate_proj_subdir
NAME_MAX == 64

\* ------------------------------------------------------------ OS processes
\* holder: the process listening on the port; pending: the spawned backends
\* that have not bound it yet; bystander: a process older than every backend
\* that is a client of the port or listens on a neighbouring port; exited:
\* the processes that have exited (the bot keeps no handle on the children
\* it spawns, so whether an exited one was reaped is known only when a
\* signal is sent to its pid).
VARIABLES holder, pending, nextPid, bystander, exited, sup, prevSup

\* ------------------------------------------- backend sessions and bot state
\* sessions/nextSess: what GET /session lists and the next id POST /session
\* hands out; msgCount/msgLast: the message log of the session being polled;
\* current_session_id/last_opencode_cwd: the globals of bot_core (0 and
\* "none" stand for None); curSource: how the current id was obtained when it
\* was stored; task: the locals of each handler invocation.
VARIABLES sessions, nextSess, msgCount, msgNew, msgLast, current_session_id, last_opencode_cwd, curSource, task

osVars == <<holder, pending, nextPid, bystander, exited>>
supVars == <<sup, prevSup>>
backendVars == <<sessions, nextSess, msgCount, msgNew, msgLast>>
botVars == <<current_session_id, last_opencode_cwd, curSource, task>>
vars == <<holder, pending, nextPid, bystander, exited, sup, prevSup, sessions, nextSess, msgCount, msgNew, msgLast, current_session_id, last_opencode_cwd, curSource, task>>

Dirs == {"default", "proj"}

\* A process: its pid, what it is, whether it answers the health endpoint,
\* its working directory, and whether it is protected from the bot's signals
\* (it belongs to another user and the bot has no privilege over it).
\* NoProc is no process (a free port, no bystander).
NoProc == [pid |-> 0, kind |-> "none", ready |-> FALSE, cwd |-> "none", protected |-> FALSE]

\* A backend process as Popen creates it: detached, in work_dir, not yet bound.
SpawnedProc(pid, cwd) == [pid |-> pid, kind |-> "oc", ready |-> FALSE, cwd |-> cwd, protected |-> FALSE]

\* A process that has exited.
Exited(p) == [p EXCEPT !.kind = "exited", !.ready = FALSE, !.cwd = "none"]

\* The bystanders that may exist when the supervisor is first used: none, a
\* client connected to the port, or a process listening on a port whose
\* number starts with the digits of the backend's port.
InitialBystanders == {NoProc} \cup {[pid |-> 1, kind |-> k, ready |-> FALSE, cwd |-> "none", protected |-> FALSE] : k \in {"client", "neighbour"}}

\* A backend on the port, started in the default directory.
Backend(pid, ready, protected) == [pid |-> pid, kind |-> "oc", ready |-> ready, cwd |-> "default", protected |-> protected]

\* The processes that may hold the port when the supervisor is first used:
\* nothing, a backend, or an unrelated server, which the bot may signal or
\* not; a bystander c is there beside a backend of this user, which was
\* started after it.
InitialHolders(c) == IF c.pid # 0 THEN {Backend(c.pid + 1, r, FALSE) : r \in BOOLEAN} ELSE {NoProc} \cup {Backend(1, r, f) : r \in BOOLEAN, f \in BOOLEAN} \cup {[pid |-> 1, kind |-> "other", ready |-> FALSE, cwd |-> "default", protected |-> f] : f \in BOOLEAN}

\* The running processes.
Procs == ({holder, bystander} \cup pending) \ {NoProc}

\* ------------------------------------------------------------ health probe
\* What GET /global/health can answer in the current state of the port.
HealthReplies == IF holder.kind = "oc" /\ holder.ready THEN {"ok_true"} ELSE IF holder.kind = "oc" THEN {"ok_false", "http_error", "net_error"} ELSE IF holder.kind = "other" THEN {"ok_missing", "non_json", "http_error", "net_error"} ELSE {"net_error"}

\* True iff status 200 and the body's "healthy" field is true; every error is False.
is_opencode_healthy(reply) == reply = "ok_true"

\* -------------------------------------------------------------- port probe
\* Outcomes of the TCP connect of check_port.
ConnectOutcomes == IF holder.pid # 0 THEN {"connected", "error"} ELSE {"refused", "error"}

\* Outcomes of one run of lsof / fuser (first loop) and of ss (fallback).
ToolOutcomes == {"pid", "empty", "absent", "timeout", "garbage", "oserror"}
SsOutcomes == {"pid", "nomatch", "absent", "timeout", "oserror"}

\* Result of a call: either it raised or it returned a value.
Raised == [raised |-> TRUE, in_use |-> FALSE, pid |-> 0]
Returned(in_use, pid) == [raised |-> FALSE, in_use |-> in_use, pid |-> pid]

\* One entry of the first loop: "pid" breaks with the pid, FileNotFoundError,
\* TimeoutExpired and ValueError continue, an empty answer falls through, any
\* other exception leaves the function.
ToolStep(outcome) == IF outcome = "pid" THEN "found" ELSE IF outcome = "oserror" THEN "raise" ELSE "next"

\* Only FileNotFoundError and TimeoutExpired are caught around ss.
SsStep(outcome) == IF outcome = "pid" THEN "found" ELSE IF outcome = "oserror" THEN "raise" ELSE "next"

\* What `lsof -i :port -t` can print first: it lists every process with a
\* socket on either end of the port in pid order, so a connected client with
\* a lower pid comes before the listener.
LsofFirst == {holder.pid} \cup (IF bystander.kind = "client" /\ bystander.pid < holder.pid THEN {bystander.pid} ELSE {})

\* The pid of the first line of `ss -tlnp` that contains ":<port>" and "pid=":
\* the line of the listener, or that of a listener on a port whose number
\* starts with the same digits.
SsFirst == {holder.pid} \cup (IF bystander.kind = "neighbour" THEN {bystander.pid} ELSE {})

\* The pid the tools resolve, 0 for None: int(raw[0]) of lsof's output (first),
\* else the pid fuser reports for the local port (owner), else the pid of the
\* first matching line of ss (matched).
get_process_on_port(lsof, fuser, ss, first, matched, owner) == IF ToolStep(lsof) = "raise" THEN Raised ELSE IF ToolStep(lsof) = "found" THEN Returned(TRUE, first) ELSE IF ToolStep(fuser) = "raise" THEN Raised ELSE IF ToolStep(fuser) = "found" THEN Returned(TRUE, owner) ELSE IF SsStep(ss) = "raise" THEN Raised ELSE IF SsStep(ss) = "found" THEN Returned(TRUE, matched) ELSE Returned(TRUE, 0)

\* (in_use, pid): a failed connect is "free"; otherwise the owner is resolved.
check_port(conn, lsof, fuser, ss, first, matched) == IF conn # "connected" THEN Returned(FALSE, 0) ELSE get_process_on_port(lsof, fuser, ss, first, matched, holder.pid)

\* Every result check_port can give in the current state.
CheckPortResults == {check_port(c, l, f, s, p, q) : c \in ConnectOutcomes, l \in ToolOutcomes, f \in ToolOutcomes, s \in SsOutcomes, p \in LsofFirst, q \in SsFirst}

\* ------------------------------------------------------------------ signals
\* os.kill(pid, sig) on a pid in the process table: PermissionError when the
\* bot may not signal the process, otherwise the call returns normally.
KillOutcome(p) == IF p.protected THEN "perm_error" ELSE "delivered"

\* The outcomes of os.kill(pid, sig): a running process is in the process
\* table; one that has exited is still there until its parent reaps it, and
\* ProcessLookupError is raised once it was reaped.
KillOutcomes(pid) == {KillOutcome(p) : p \in {q \in Procs \cup exited : q.pid = pid}} \cup (IF \E p \in Procs : p.pid = pid THEN {} ELSE {"lookup_error"})

\* What a delivered signal to pid hits.
Victim(pid) == IF holder.pid = pid THEN "holder" ELSE IF bystander.pid = pid THEN "bystander" ELSE IF \E p \in pending : p.pid = pid THEN "pending" ELSE "exited"

\* ------------------------------------------------------- supervisor calls
\* Locals and result of the supervisor call in progress.
SupIdle == [pc |-> "idle", op |-> "none", caller |-> 0, n |-> 0, npid0 |-> 0, cwd |-> "none", h1 |-> "unset", h2 |-> "unset", in_use |-> FALSE, pid |-> 0, i |-> 0, killres |-> "unset", term |-> "unset", startTried |-> FALSE, spawned |-> 0, hp |-> "unset", sigs |-> <<>>, victim |-> "none", ok |-> FALSE, msg |-> "none"]

NoPrev == [op |-> "none", ok |-> FALSE, msg |-> "none", spawned |-> 0]

\* return (ok, msg)
SupReturn(s, ok, msg) == [s EXCEPT !.pc = "done", !.ok = ok, !.msg = msg]

\* an exception leaves the public operation
SupRaise(s) == [s EXCEPT !.pc = "raised", !.ok = FALSE, !.msg = "exception"]

\* ---- start_opencode
StartOutcomes == {"started", "mkdir_failed", "no_command", "popen_error"}

\* The state after start_opencode: on success a detached child exists.
start_opencode(s, outcome, next) == IF outcome = "started" THEN [s EXCEPT !.pc = next, !.i = 0, !.startTried = TRUE, !.spawned = s.spawned + 1, !.msg = "started"] ELSE SupReturn([s EXCEPT !.startTried = TRUE], FALSE, outcome)

\* ---- ensure_opencode_running
\* What the caller keeps of a finished call.
SupSummary(s) == [op |-> s.op, ok |-> s.ok, msg |-> s.msg, spawned |-> s.spawned]

\* A public operation is called when no other supervisor call is running.
SupFree == sup.pc \in {"idle", "done", "raised"} /\ sup.caller = 0 /\ nextPid <= MaxPid /\ sup.n < MaxCalls

EnsureCall(cwd) ==
    /\ SupFree
    /\ sup' = [SupIdle EXCEPT !.pc = "e_health1", !.op = "ensure", !.cwd = cwd, !.npid0 = nextPid, !.n = sup.n + 1]
    /\ prevSup' = SupSummary(sup)
    /\ UNCHANGED <<osVars, backendVars, botVars>>

\* (variant of EnsureAfterHealth1 that goes on probing although healthy)
EnsureAfterHealth1_Ignore(s, h) == [s EXCEPT !.h1 = IF h THEN "yes" ELSE "no", !.pc = "e_check"]

\* line 218: if is_opencode_healthy(): return True
EnsureAfterHealth1(s, h) == IF h THEN SupReturn([s EXCEPT !.h1 = "yes"], TRUE, "already_running") ELSE [s EXCEPT !.h1 = "no", !.pc = "e_check"]

EnsureHealth1 ==
    /\ sup.pc = "e_health1"
    /\ \E reply \in HealthReplies : sup' = EnsureAfterHealth1(sup, is_opencode_healthy(reply))
    /\ UNCHANGED <<osVars, prevSup, backendVars, botVars>>

\* line 223: in_use, pid, cmd = check_port(port)
EnsureAfterCheck(s, r) == IF r.raised THEN SupRaise(s) ELSE IF r.in_use THEN [s EXCEPT !.in_use = TRUE, !.pid = r.pid, !.pc = "e_health2"] ELSE [s EXCEPT !.in_use = FALSE, !.pid = 0, !.pc = "e_start"]

EnsureCheckPort ==
    /\ sup.pc = "e_check"
    /\ \E r \in CheckPortResults : sup' = EnsureAfterCheck(sup, r)
    /\ UNCHANGED <<osVars, prevSup, backendVars, botVars>>

\* (variant of EnsureAfterHealth2 that starts a backend on an occupied port)
EnsureAfterHealth2_Spawn(s, h) == IF h THEN SupReturn([s EXCEPT !.h2 = "yes"], TRUE, "already_running") ELSE [s EXCEPT !.h2 = "no", !.pc = "e_start"]

\* lines 224-227: occupied and unhealthy is a conflict, occupied and healthy is success
EnsureAfterHealth2(s, h) == IF h THEN SupReturn([s EXCEPT !.h2 = "yes"], TRUE, "already_running") ELSE SupReturn([s EXCEPT !.h2 = "no"], FALSE, "port_conflict")

EnsureHealth2 ==
    /\ sup.pc = "e_health2"
    /\ \E reply \in HealthReplies : sup' = EnsureAfterHealth2(sup, is_opencode_healthy(reply))
    /\ UNCHANGED <<osVars, prevSup, backendVars, botVars>>

\* lines 228-230: ok, msg = start_opencode(...)
EnsureStart ==
    /\ sup.pc = "e_start"
    /\ \E o \in StartOutcomes :
        /\ sup' = start_opencode(sup, o, "e_poll")
        /\ IF o = "started" THEN pending' = pending \cup {SpawnedProc(nextPid, sup.cwd)} /\ nextPid' = nextPid + 1 ELSE UNCHANGED <<pending, nextPid>>
    /\ UNCHANGED <<holder, bystander, exited, prevSup, backendVars, botVars>>

\* (variant of HealthPoll that polls once more than its budget)
HealthPoll_OneMore(s, h, budget, okmsg, failmsg) == IF h THEN SupReturn([s EXCEPT !.i = s.i + 1], TRUE, okmsg) ELSE IF s.i + 1 > budget THEN SupReturn([s EXCEPT !.i = s.i + 1], FALSE, failmsg) ELSE [s EXCEPT !.i = s.i + 1]

\* One iteration of a health poll loop of `budget` rounds, h being the
\* result of its probe.
HealthPoll(s, h, budget, okmsg, failmsg) == IF h THEN SupReturn([s EXCEPT !.i = s.i + 1], TRUE, okmsg) ELSE IF s.i + 1 >= budget THEN SupReturn([s EXCEPT !.i = s.i + 1], FALSE, failmsg) ELSE [s EXCEPT !.i = s.i + 1]

\* lines 231-235; hp keeps whether the probe of the iteration was answered
\* "healthy": true.
EnsurePoll ==
    /\ sup.pc = "e_poll"
    /\ \E reply \in HealthReplies : sup' = [HealthPoll(sup, is_opencode_healthy(reply), ENSURE_HEALTH_POLLS, "started", "unhealthy_after_start") EXCEPT !.hp = IF reply = "ok_true" THEN "ok_true" ELSE "other"]
    /\ UNCHANGED <<osVars, prevSup, backendVars, botVars>>

\* ---- restart_opencode
RestartCall(cwd) ==
    /\ SupFree
    /\ sup' = [SupIdle EXCEPT !.pc = "r_check", !.op = "restart", !.cwd = cwd, !.npid0 = nextPid, !.n = sup.n + 1]
    /\ prevSup' = SupSummary(sup)
    /\ UNCHANGED <<osVars, backendVars, botVars>>

\* lines 196-198: a False from _kill_port_process ends the restart
RestartAfterKill(s, killed) == IF killed THEN [s EXCEPT !.killres = "yes", !.pc = "r_start"] ELSE SupReturn([s EXCEPT !.killres = "no"], FALSE, "kill_failed")

\* lines 165-167: nothing to terminate without an occupied port and a pid
KillAfterCheck(s, r) == IF r.raised THEN SupRaise(s) ELSE IF ~r.in_use \/ r.pid = 0 THEN RestartAfterKill([s EXCEPT !.in_use = r.in_use, !.pid = r.pid, !.term = "no_owner"], TRUE) ELSE [s EXCEPT !.in_use = TRUE, !.pid = r.pid, !.pc = "r_term"]

KillCheckPort ==
    /\ sup.pc = "r_check"
    /\ \E r \in CheckPortResults : sup' = KillAfterCheck(sup, r)
    /\ UNCHANGED <<osVars, prevSup, backendVars, botVars>>

\* (variant of KillExcept in which a vanished pid counts as a failure)
KillExcept_AllFail(s, outcome) == RestartAfterKill([s EXCEPT !.term = IF outcome = "lookup_error" THEN "gone" ELSE "error"], FALSE)

\* The except clauses of _kill_port_process: ProcessLookupError is True, others False.
KillExcept(s, outcome) == IF outcome = "lookup_error" THEN RestartAfterKill([s EXCEPT !.term = "gone"], TRUE) ELSE RestartAfterKill([s EXCEPT !.term = "error"], FALSE)

\* line 169: os.kill(pid, 15)
KillTerm ==
    /\ sup.pc = "r_term"
    /\ \E o \in KillOutcomes(sup.pid) :
        sup' = IF o = "delivered" THEN [sup EXCEPT !.sigs = Append(sup.sigs, <<sup.pid, SIGTERM>>), !.i = 0, !.pc = "r_wait"] ELSE KillExcept(sup, o)
    /\ UNCHANGED <<osVars, prevSup, backendVars, botVars>>

\* (variant of KillAfterWait that escalates after the first occupied probe)
KillAfterWait_Hasty(s, r) == IF r.raised THEN KillExcept(s, "other_error") ELSE IF ~r.in_use THEN RestartAfterKill([s EXCEPT !.i = s.i + 1, !.term = "freed"], TRUE) ELSE [s EXCEPT !.i = s.i + 1, !.pc = "r_kill9"]

\* lines 170-174: one round of the wait loop
KillAfterWait(s, r) == IF r.raised THEN KillExcept(s, "other_error") ELSE IF ~r.in_use THEN RestartAfterKill([s EXCEPT !.i = s.i + 1, !.term = "freed"], TRUE) ELSE IF s.i + 1 >= KILL_POLLS THEN [s EXCEPT !.i = s.i + 1, !.pc = "r_kill9"] ELSE [s EXCEPT !.i = s.i + 1]

KillWait ==
    /\ sup.pc = "r_wait"
    /\ \E r \in CheckPortResults : sup' = KillAfterWait(sup, r)
    /\ UNCHANGED <<osVars, prevSup, backendVars, botVars>>

\* lines 175-177: os.kill(pid, 9); a running process that takes it exits at once.
KillForce ==
    /\ sup.pc = "r_kill9"
    /\ \E o \in KillOutcomes(sup.pid) :
        /\ sup' = IF o = "delivered" THEN RestartAfterKill([sup EXCEPT !.sigs = Append(sup.sigs, <<sup.pid, SIGKILL>>), !.term = "forced", !.victim = Victim(sup.pid)], TRUE) ELSE KillExcept(sup, o)
        /\ holder' = IF o = "delivered" /\ holder.pid = sup.pid THEN NoProc ELSE holder
        /\ bystander' = IF o = "delivered" /\ bystander.pid = sup.pid THEN NoProc ELSE bystander
        /\ pending' = IF o = "delivered" THEN {p \in pending : p.pid # sup.pid} ELSE pending
        /\ exited' = IF o = "delivered" THEN exited \cup {Exited(p) : p \in {q \in Procs : q.pid = sup.pid}} ELSE exited
    /\ UNCHANGED <<nextPid, prevSup, backendVars, botVars>>

\* lines 198-201
RestartStart ==
    /\ sup.pc = "r_start"
    /\ \E o \in StartOutcomes :
        /\ sup' = start_opencode(sup, o, "r_poll")
        /\ IF o = "started" THEN pending' = pending \cup {SpawnedProc(nextPid, sup.cwd)} /\ nextPid' = nextPid + 1 ELSE UNCHANGED <<pending, nextPid>>
    /\ UNCHANGED <<holder, bystander, exited, prevSup, backendVars, botVars>>

\* lines 202-206
RestartPoll ==
    /\ sup.pc = "r_poll"
    /\ \E reply \in HealthReplies : sup' = [HealthPoll(sup, is_opencode_healthy(reply), RESTART_HEALTH_POLLS, "restarted", "unhealthy_after_restart") EXCEPT !.hp = IF reply = "ok_true" THEN "ok_true" ELSE "other"]
    /\ UNCHANGED <<osVars, prevSup, backendVars, botVars>>

\* ------------------------------------------------------------- environment
\* A spawned backend binds the free port.
EnvBind ==
    /\ holder.pid = 0
    /\ \E p \in pending : holder' = p /\ pending' = pending \ {p}
    /\ UNCHANGED <<nextPid, bystander, exited, supVars, backendVars, botVars>>

\* A spawned backend exits without the port (address in use, crash at start).
EnvSpawnExit ==
    /\ \E p \in pending : pending' = pending \ {p} /\ exited' = exited \cup {Exited(p)}
    /\ UNCHANGED <<holder, nextPid, bystander, supVars, backendVars, botVars>>

\* The backend on the port starts answering its health endpoint.
EnvReady ==
    /\ holder.kind = "oc" /\ ~holder.ready
    /\ holder' = [holder EXCEPT !.ready = TRUE]
    /\ UNCHANGED <<pending, nextPid, bystander, exited, supVars, backendVars, botVars>>

\* The backend on the port stops answering (wedged).
EnvWedge ==
    /\ holder.kind = "oc" /\ holder.ready
    /\ holder' = [holder EXCEPT !.ready = FALSE]
    /\ UNCHANGED <<pending, nextPid, bystander, exited, supVars, backendVars, botVars>>

\* The process on the port exits (after a signal, or by itself).
EnvExit ==
    /\ holder.pid # 0
    /\ holder' = NoProc
    /\ exited' = exited \cup {Exited(holder)}
    /\ UNCHANGED <<pending, nextPid, bystander, supVars, backendVars, botVars>>

\* The bystander exits (after a signal, or by itself).
EnvBystanderExit ==
    /\ bystander.pid # 0
    /\ bystander' = NoProc
    /\ exited' = exited \cup {Exited(bystander)}
    /\ UNCHANGED <<holder, pending, nextPid, supVars, backendVars, botVars>>

EnvOS == EnvBind \/ EnvSpawnExit \/ EnvReady \/ EnvWedge \/ EnvExit

\* ------------------------------------------------------------------ messages
\* Text is a sequence of characters, each given by its code point ord(c):
\* 32 is a space, 46 '.', 47 '/', 92 a backslash, 97 'a'; <<>> is the empty
\* string.
\* The characters str.strip() removes: those for which str.isspace() holds
\* (tab to carriage return, the separators 28-31, space, NEL, no-break space
\* and the Unicode spaces).
WS == (9..13) \cup (28..32) \cup {133, 160, 5760} \cup (8192..8202) \cup {8232, 8233, 8239, 8287, 12288}

RECURSIVE lstrip(_)
lstrip(s) == IF s # <<>> /\ Head(s) \in WS THEN lstrip(Tail(s)) ELSE s

RECURSIVE rstrip(_)
rstrip(s) == IF s # <<>> /\ s[Len(s)] \in WS THEN rstrip(SubSeq(s, 1, Len(s) - 1)) ELSE s

\* str.strip()
strip(s) == rstrip(lstrip(s))

\* _validate_proj_subdir(name): the reason for rejecting name, or "ok" (None).
validate_proj_subdir(name) == IF name = <<>> \/ Len(name) > NAME_MAX THEN "bad_length" ELSE IF \E i \in 1..Len(name) : name[i] \in {47, 92, 0, 9, 10, 13} \/ name[i] < 32 THEN "bad_char" ELSE IF name[1] = 46 \/ (\E i \in 1..(Len(name) - 1) : name[i] = 46 /\ name[i + 1] = 46) THEN "bad_dots" ELSE "ok"

\* A part {type, text?}: has_text tells whether the "text" key is present.
Part(type, has_text, text) == [type |-> type, has_text |-> has_text, text |-> text]

NoMessage == [parts |-> <<>>]

\* Messages the backend answers with or appends to a session.
Messages == {NoMessage, [parts |-> <<Part("tool", FALSE, <<>>)>>], [parts |-> <<Part("text", TRUE, <<32>>)>>], [parts |-> <<Part("text", TRUE, <<97>>)>>], [parts |-> <<Part("tool", FALSE, <<>>), Part("text", TRUE, <<97>>), Part("text", TRUE, <<32, 98, 32>>)>>], [parts |-> <<Part("text", TRUE, <<97>>), Part("text", FALSE, <<>>), Part("tool", TRUE, <<99>>)>>]}

IsTextPart(p) == p.type = "text" /\ p.has_text

\* The stripped text of the last part of type "text" that has a text, "" if none.
extract_final_result(data) == LET text_parts == SelectSeq(data.parts, IsTextPart) IN IF text_parts = <<>> THEN <<>> ELSE strip(text_parts[Len(text_parts)].text)

\* ------------------------------------------------------------ backend HTTP
\* The backend answers its API when it holds the port and is ready.
BackendUp == holder.kind = "oc" /\ holder.ready

\* Failure kinds of one HTTP call: httpx.TimeoutException, HTTPStatusError with
\* status 404 or another status, ValueError of _parse_json, a transport error.
CallFaults == IF BackendUp THEN {"timeout", "http_other", "protocol"} ELSE IF holder.kind = "oc" THEN {"timeout", "http_other", "network"} ELSE IF holder.kind = "other" THEN {"timeout", "http404", "http_other", "protocol"} ELSE {"timeout", "network"}

RECURSIVE SeqToSet(_)
SeqToSet(q) == IF q = <<>> THEN {} ELSE {Head(q)} \cup SeqToSet(Tail(q))

\* An entry of the list GET /session answers with. object: it is a JSON
\* object (s.get works on it); id: its "id", 0 when it has none; time: the
\* activity time its "time" carries, 0 when "time" is missing or falsy;
\* ttype: how "time" is given, as a number, a string or an object.
Entry(object, id, time, ttype) == [object |-> object, id |-> id, time |-> time, ttype |-> IF time = 0 THEN "none" ELSE ttype]

\* A session as the backend of the data model lists it: an id and a numeric
\* activity time (0: none).
Session(id, time) == Entry(TRUE, id, time, "num")

\* The ids of the sessions the backend has.
SessionIds(list) == {x.id : x \in {y \in SeqToSet(list) : y.object}} \ {0}

\* line 22-23: ids = [s.get("id") for s in (sessions or []) if s.get("id")]
\* and the membership test; s.get raises on an entry that is no object.
verify_hit(cur, list) == (\A i \in 1..Len(list) : list[i].object) /\ cur \in SessionIds(list)

\* lines 232-235: the loop of handle_switch_session raises when it meets an
\* entry that is no object before one with the given id.
switch_scan_raises(sid, list) == \E i \in 1..Len(list) : ~list[i].object /\ \A j \in 1..(i - 1) : list[j].id # sid

Fault(kind) == [res |-> kind, list |-> <<>>, id |-> 0, data |-> NoMessage]

\* Outcomes of GET /session.
ListOutcomes == {Fault(k) : k \in CallFaults} \cup (IF BackendUp THEN {[res |-> "ok", list |-> sessions, id |-> 0, data |-> NoMessage]} ELSE {})

\* Outcomes of POST /session: the backend hands out the next id.
CreateOutcomes == {Fault(k) : k \in CallFaults} \cup (IF BackendUp /\ nextSess <= MaxSess THEN {[res |-> "ok", list |-> <<>>, id |-> nextSess, data |-> NoMessage]} ELSE {})

\* Outcomes of a request on /session/{sid}/...: an id the backend does not list is rejected with 404.
SessionCallFaults(sid) == IF BackendUp /\ sid \notin SessionIds(sessions) THEN {"http404", "timeout"} ELSE CallFaults

\* Outcomes of POST /session/{sid}/message.
SendOutcomes(sid) == {Fault(k) : k \in SessionCallFaults(sid)} \cup (IF BackendUp /\ sid \in SessionIds(sessions) THEN {[res |-> "ok", list |-> <<>>, id |-> 0, data |-> m] : m \in Messages} ELSE {})

\* Outcomes of POST /session/{sid}/prompt_async and of GET /session/{sid}/message.
SessionCallOutcomes(sid) == {Fault(k) : k \in SessionCallFaults(sid)} \cup (IF BackendUp /\ sid \in SessionIds(sessions) THEN {[res |-> "ok", list |-> <<>>, id |-> 0, data |-> msgLast]} ELSE {})

\* len of what GET message?limit=10 returns: the newest MSG_LIMIT messages.
WindowLen(count) == IF count > MSG_LIMIT THEN MSG_LIMIT ELSE count

\* ------------------------------------------------------------ orchestrator
Tasks == {1, 2}

NoRet == [kind |-> "none", err |-> "none", text |-> <<>>, sid |-> 0]
RetText(text) == [NoRet EXCEPT !.kind = "text", !.text = text]
RetPlaceholder == [NoRet EXCEPT !.kind = "no_text_result"]
RetTimeout == [NoRet EXCEPT !.kind = "timeout_guidance"]
RetFailure(what, err) == [NoRet EXCEPT !.kind = what, !.err = err]
RetSid(sid) == [NoRet EXCEPT !.kind = "sid", !.sid = sid]
RetInfo(what) == [NoRet EXCEPT !.kind = what]
RetRaised(err) == [NoRet EXCEPT !.kind = "raised", !.err = err]

NoCall == [call |-> "none", res |-> "none", data |-> NoMessage, ctx |-> "none"]

\* Locals of one handler invocation, and what it did so far.
TaskIdle == [pc |-> "idle", op |-> "none", ctx |-> "none", mode |-> "none", arg |-> 0, cwd |-> "none", session_id |-> 0, n_before |-> 0, polls |-> 0, ret |-> NoRet, cur0 |-> 0, after_new |-> 0, sends |-> 0, creates |-> 0, gocs |-> 0, vresp |-> "none", dfail1 |-> "none", seenNew |-> FALSE, timedOut |-> FALSE, sendAfterTimeout |-> FALSE, cleared |-> FALSE, last |-> NoCall, rsup |-> NoPrev, rterm |-> "unset", rvictim |-> "none", resp |-> Fault("none"), subdir |-> <<>>, appended |-> <<>>]

\* A handler state: its locals, the global current_session_id and how it was obtained.
Ctx(t) == [tk |-> task[t], cur |-> current_session_id, src |-> curSource, lcwd |-> last_opencode_cwd]

\* The handler returns.
Done(c, ret) == [c EXCEPT !.tk.pc = "done", !.tk.ret = ret]

\* current_session_id = value
SetCur(c, value, source) == [c EXCEPT !.cur = value, !.src = IF value = 0 THEN "none" ELSE source]

\* ---- send_message: which request delivers, by OPENCODE_USE_ASYNC
DeliveryStart(mode) == IF mode = "async" THEN "a_submit" ELSE "m_send"

\* lines 257-259 and 263-265: an empty result is rendered as the placeholder
MessageResult(c, result) == IF result = <<>> THEN Done(c, RetPlaceholder) ELSE Done(c, RetText(result))

\* line 19: the cached id is verified first when there is one
GocEntry(c) == IF c.cur # 0 THEN [c EXCEPT !.tk.pc = "g_verify", !.tk.gocs = c.tk.gocs + 1] ELSE [c EXCEPT !.tk.pc = "g_list", !.tk.gocs = c.tk.gocs + 1]

\* (variant of MessageRetryExcept that lets the retry's exception leave the handler)
MessageRetryExcept_Propagate(c, kind) == Done(c, RetRaised(kind))

\* lines 252-256: the retry; whatever it raises is reported as a failure
MessageRetryExcept(c, kind) == Done(c, RetFailure("call_failed", kind))

\* (variant of MessageFirstExcept that retries on every HTTP status error)
MessageFirstExcept_AnyStatus(c, kind) == IF kind = "timeout" THEN Done(c, RetTimeout) ELSE IF kind \in {"http404", "http_other"} THEN GocEntry([SetCur(c, 0, "none") EXCEPT !.tk.ctx = "retry", !.tk.cleared = TRUE]) ELSE Done(c, RetFailure("call_failed", kind))

\* (variant of MessageFirstExcept that retries after a timeout as after a 404)
MessageFirstExcept_RetryTimeout(c, kind) == IF kind \in {"timeout", "http404"} THEN GocEntry([SetCur(c, 0, "none") EXCEPT !.tk.ctx = "retry", !.tk.cleared = TRUE]) ELSE Done(c, RetFailure("call_failed", kind))

\* lines 246-262: the except clauses around the first attempt
MessageFirstExcept(c, kind) == IF kind = "timeout" THEN Done(c, RetTimeout) ELSE IF kind = "http404" THEN GocEntry([SetCur(c, 0, "none") EXCEPT !.tk.ctx = "retry", !.tk.cleared = TRUE]) ELSE Done(c, RetFailure("call_failed", kind))

\* An exception leaves get_or_create_session or send_message inside handle_message.
MessageExcept(c, kind) == IF c.tk.ctx = "first" THEN MessageFirstExcept(c, kind) ELSE MessageRetryExcept(c, kind)

\* get_or_create_session returns sid to its caller.
GocReturn(c, sid) == IF c.tk.ctx = "direct" THEN Done(c, RetSid(sid)) ELSE [c EXCEPT !.tk.session_id = sid, !.tk.pc = DeliveryStart(c.tk.mode)]

\* get_or_create_session raises.
GocRaise(c, kind) == IF c.tk.ctx = "direct" THEN Done(c, RetRaised(kind)) ELSE MessageExcept(c, kind)

\* (variant of goc_verify that never reuses the cached id)
goc_verify_Drop(c, o) == [SetCur(c, 0, "none") EXCEPT !.tk.pc = "g_list"]

\* lines 20-27: reuse the cached id if listed, else clear it and fall through
goc_verify(c, o) == IF o.res = "ok" /\ verify_hit(c.cur, o.list) THEN GocReturn(c, c.cur) ELSE [SetCur(c, 0, "none") EXCEPT !.tk.pc = "g_list"]

\* lines 28-34: no session listed: create one; else take the first listed
\* (sessions[0]["id"] raises when the first entry is no object or has no id)
goc_list(c, o) == IF o.res # "ok" THEN GocRaise(c, o.res) ELSE IF o.list = <<>> THEN [c EXCEPT !.tk.pc = "g_create"] ELSE IF ~o.list[1].object \/ o.list[1].id = 0 THEN GocRaise(c, "data_error") ELSE GocReturn(SetCur(c, o.list[1].id, "listed"), o.list[1].id)

\* lines 30-31
goc_create(c, o) == IF o.res # "ok" THEN GocRaise(c, o.res) ELSE GocReturn(SetCur(c, o.id, "created"), o.id)

\* send_message returns result to its caller.
SendReturn(c, result) == IF c.tk.ctx = "send" THEN Done(c, RetText(result)) ELSE MessageResult(c, result)

\* send_message raises.
SendRaise(c, kind) == IF c.tk.ctx = "send" THEN Done(c, RetRaised(kind)) ELSE MessageExcept(c, kind)

\* lines 148-157: synchronous delivery
send_message(c, o) == IF o.res # "ok" THEN SendRaise(c, o.res) ELSE SendReturn(c, extract_final_result(o.data))

\* r.raise_for_status() on an answer whose body is not read: an empty or
\* non-JSON body with a success status is a success.
raise_for_status(o) == IF o.res = "protocol" THEN [o EXCEPT !.res = "ok"] ELSE o

\* lines 121-125: the submit
async_submit(c, o) == IF raise_for_status(o).res # "ok" THEN SendRaise(c, raise_for_status(o).res) ELSE [c EXCEPT !.tk.pc = "a_baseline"]

\* lines 126-128: n_before and the deadline
async_baseline(c, o, count) == IF o.res # "ok" THEN SendRaise(c, o.res) ELSE [c EXCEPT !.tk.n_before = WindowLen(count), !.tk.polls = 0, !.tk.pc = "a_poll"]

\* line 128: the deadline has passed after MaxPolls rounds
async_next_round(c) == IF c.tk.polls + 1 >= MaxPolls THEN SendRaise([c EXCEPT !.tk.polls = c.tk.polls + 1], "timeout") ELSE [c EXCEPT !.tk.polls = c.tk.polls + 1]

\* (variant of async_poll that returns as soon as the count has grown)
async_poll_AnyNew(c, o, count) == IF o.res # "ok" THEN SendRaise(c, o.res) ELSE IF WindowLen(count) > c.tk.n_before THEN SendReturn(c, extract_final_result(o.data)) ELSE async_next_round(c)

\* lines 129-136: one round of the poll loop
async_poll(c, o, count) == IF o.res # "ok" THEN SendRaise(c, o.res) ELSE IF WindowLen(count) > c.tk.n_before /\ extract_final_result(o.data) # <<>> THEN SendReturn(c, extract_final_result(o.data)) ELSE async_next_round(c)

\* (variant of new_session that drops the cached id when another request changed it meanwhile)
new_session_IfUnchanged(c, o) == IF o.res # "ok" THEN Done(c, RetFailure("create_failed", o.res)) ELSE IF c.cur = c.tk.cur0 THEN Done(SetCur(c, o.id, "created"), RetInfo("switched_new")) ELSE Done(SetCur(c, 0, "none"), RetInfo("switched_new"))

\* lines 138-143: handle_new_session
new_session(c, o) == IF o.res # "ok" THEN Done(c, RetFailure("create_failed", o.res)) ELSE Done(SetCur(c, o.id, "created"), RetInfo("switched_new"))

\* lines 229-239: handle_switch_session stores the id it was given
switch_session(c, o) == IF o.res # "ok" THEN Done(c, RetFailure("switch_failed", o.res)) ELSE IF switch_scan_raises(c.tk.arg, o.list) THEN Done(c, RetFailure("switch_failed", "data_error")) ELSE Done(SetCur(c, c.tk.arg, IF c.tk.arg \in SessionIds(o.list) THEN "listed" ELSE "unlisted"), RetInfo("switched"))

\* lines 162-166 of handle_new_project
new_project_restarted(c, s) == IF s.pc = "raised" THEN Done(c, RetRaised("exception")) ELSE IF ~s.ok THEN Done(c, RetFailure("restart_failed", s.msg)) ELSE [SetCur(c, 0, "none") EXCEPT !.tk.pc = "p_create", !.lcwd = c.tk.cwd]

\* lines 167-172 of handle_new_project
new_project_created(c, o) == IF o.res # "ok" THEN Done(c, RetFailure("create_failed", o.res)) ELSE Done(SetCur(c, o.id, "created"), RetInfo("switched_project"))

\* lines 211-214 of handle_restart_opencode
restart_restarted(c, s) == IF s.pc = "raised" THEN Done(c, RetRaised("exception")) ELSE IF ~s.ok THEN Done(c, RetFailure("restart_failed", s.msg)) ELSE [SetCur(c, 0, "none") EXCEPT !.tk.pc = "r_list"]

\* sort_key of handle_restart_opencode: t = s.get("time") or "" and the key
\* (1 if t else 0, t); a falsy time gives (0, "").
sort_key(x) == IF x.time = 0 THEN <<0, "str", 0>> ELSE <<1, x.ttype, x.time>>

\* a < b on two keys, as the sort compares tuples: the first components
\* decide when they differ; equal times are not smaller; two numbers or two
\* strings are ordered; any other pair (a number and a string, an object
\* and anything that is not equal to it) raises TypeError.
key_lt(a, b) == IF a[1] # b[1] THEN (IF a[1] < b[1] THEN "lt" ELSE "ge") ELSE IF a = b THEN "ge" ELSE IF a[2] = b[2] /\ a[2] \in {"num", "str"} THEN (IF a[3] < b[3] THEN "lt" ELSE "ge") ELSE "raise"

Reverse(q) == [i \in 1..Len(q) |-> q[Len(q) + 1 - i]]

SortRaised == [raised |-> TRUE, list |-> <<>>]
Sorted(q) == [raised |-> FALSE, list |-> q]

\* sorted() on fewer than 64 items: the length of the run the list starts
\* with (strictly descending, or not descending), 0 when a comparison raises.
RECURSIVE run_end(_, _, _)
run_end(q, n, desc) == IF n = Len(q) THEN n ELSE LET r == key_lt(sort_key(q[n + 1]), sort_key(q[n])) IN IF r = "raise" THEN 0 ELSE IF (r = "lt") = desc THEN run_end(q, n + 1, desc) ELSE n

\* The position (counted from 0) at which x is inserted among the first r
\* items of q by binary search, -1 when a comparison raises.
RECURSIVE bisect(_, _, _, _)
bisect(q, x, l, r) == LET p == l + ((r - l) \div 2) cmp == key_lt(sort_key(x), sort_key(q[p + 1])) l2 == IF cmp = "lt" THEN l ELSE p + 1 r2 == IF cmp = "lt" THEN p ELSE r IN IF cmp = "raise" THEN -1 ELSE IF l2 < r2 THEN bisect(q, x, l2, r2) ELSE l2

\* The items after the first `start` ones are inserted one by one.
RECURSIVE binarysort(_, _)
binarysort(q, start) == IF start >= Len(q) THEN Sorted(q) ELSE LET x == q[start + 1] l == bisect(q, x, 0, start) IN IF l < 0 THEN SortRaised ELSE binarysort(SubSeq(q, 1, l) \o <<x>> \o SubSeq(q, l + 1, start) \o SubSeq(q, start + 2, Len(q)), start + 1)

\* list.sort in ascending order of at least two items: the first run is
\* found (and reversed when it descends), the rest is inserted into it.
list_sort(q) == LET first == key_lt(sort_key(q[2]), sort_key(q[1])) n == run_end(q, 2, first = "lt") IN IF first = "raise" \/ n = 0 THEN SortRaised ELSE binarysort(IF first = "lt" THEN Reverse(SubSeq(q, 1, n)) \o SubSeq(q, n + 1, Len(q)) ELSE q, n)

\* sorted(sessions, key=sort_key, reverse=True): the keys are computed first
\* (s.get raises on an entry that is no object), then the reversed list is
\* sorted in ascending order and reversed again.
sorted_desc(q) == IF \E i \in 1..Len(q) : ~q[i].object THEN SortRaised ELSE IF Len(q) < 2 THEN Sorted(q) ELSE LET r == list_sort(Reverse(q)) IN IF r.raised THEN SortRaised ELSE Sorted(Reverse(r.list))

\* lines 215-225 of handle_restart_opencode: whatever the listing or the
\* sort raises is swallowed and leaves the id cleared; sessions[0].get("id")
\* is None for an entry without an id.
restart_listed(c, o) == IF o.res # "ok" \/ o.list = <<>> \/ sorted_desc(o.list).raised THEN Done(c, RetInfo("restarted")) ELSE Done(SetCur(c, sorted_desc(o.list).list[1].id, "listed"), RetInfo("restarted"))

\* ---------------------------------------------------------- handler steps
DeliveryPcs == {"m_send", "a_submit", "a_baseline", "a_poll"}
AsyncPcs == {"a_baseline", "a_poll"}

\* What the invocation has observed and done so far, kept beside its locals:
\* the outcome of its last backend call, the requests it has issued, the first
\* delivery failure and whether a delivery has timed out.
Observe(t, tk2, call, o) == [tk2 EXCEPT !.last = [call |-> call, res |-> o.res, data |-> o.data, ctx |-> task[t].ctx], !.sends = IF call \in {"send", "submit"} THEN task[t].sends + 1 ELSE task[t].sends, !.creates = IF call = "create" THEN task[t].creates + 1 ELSE task[t].creates, !.dfail1 = IF task[t].pc \in DeliveryPcs /\ task[t].ctx = "first" /\ task[t].dfail1 = "none" /\ o.res # "ok" THEN o.res ELSE IF task[t].pc = "a_poll" /\ task[t].ctx = "first" /\ task[t].dfail1 = "none" /\ tk2.polls >= MaxPolls THEN "timeout" ELSE task[t].dfail1, !.seenNew = task[t].seenNew \/ (task[t].pc = "a_poll" /\ o.res = "ok" /\ WindowLen(msgCount) > task[t].n_before), !.timedOut = task[t].timedOut \/ (task[t].pc \in DeliveryPcs /\ o.res = "timeout") \/ (task[t].pc = "a_poll" /\ o.res = "ok" /\ tk2.polls >= MaxPolls), !.sendAfterTimeout = task[t].sendAfterTimeout \/ (call \in {"send", "submit"} /\ task[t].timedOut)]

\* The step of task t ends in handler state c2.
Commit(t, c2, call, o) ==
    /\ task' = [task EXCEPT ![t] = Observe(t, c2.tk, call, o)]
    /\ current_session_id' = c2.cur
    /\ curSource' = c2.src
    /\ last_opencode_cwd' = c2.lcwd

\* The message log is followed only while a submit-and-poll delivery runs.
KeepLog(c2) == IF c2.tk.pc \in AsyncPcs THEN UNCHANGED <<msgCount, msgNew, msgLast>> ELSE msgCount' = 0 /\ msgNew' = 0 /\ msgLast' = NoMessage

\* Handlers run one at a time; a handler that restarts the backend needs the supervisor.
CanBegin(t) == \A u \in Tasks : task[u].pc \in {"idle", "done"}

NewTask(t, op, ctx) == [TaskIdle EXCEPT !.op = op, !.ctx = ctx, !.cur0 = current_session_id, !.after_new = IF task[t].op = "new_session" /\ task[t].ret.kind = "switched_new" THEN current_session_id ELSE 0]

Begin(t, c2) ==
    /\ task' = [task EXCEPT ![t] = c2.tk]
    /\ current_session_id' = c2.cur
    /\ curSource' = c2.src
    /\ last_opencode_cwd' = c2.lcwd

\* get_or_create_session()
GocCall(t) ==
    /\ CanBegin(t)
    /\ Begin(t, GocEntry([Ctx(t) EXCEPT !.tk = NewTask(t, "goc", "direct")]))
    /\ UNCHANGED <<osVars, supVars, backendVars>>

\* handle_message(text), with OPENCODE_USE_ASYNC giving the mode
MessageCall(t, mode) ==
    /\ CanBegin(t)
    /\ Begin(t, GocEntry([Ctx(t) EXCEPT !.tk = [NewTask(t, "message", "first") EXCEPT !.mode = mode]]))
    /\ UNCHANGED <<osVars, supVars, backendVars>>

\* handle_message(text) is entered while another invocation may be suspended
\* at one of its awaits; each of the two messages is handled once.
MessageStart(t, mode) ==
    /\ task[t].pc = "idle"
    /\ Begin(t, GocEntry([Ctx(t) EXCEPT !.tk = [NewTask(t, "message", "first") EXCEPT !.mode = mode]]))
    /\ UNCHANGED <<osVars, supVars, backendVars>>

\* send_message(session_id, text) called by itself
SendCall(t, mode, sid) ==
    /\ CanBegin(t)
    /\ Begin(t, [Ctx(t) EXCEPT !.tk = [NewTask(t, "send", "send") EXCEPT !.mode = mode, !.session_id = sid, !.pc = DeliveryStart(mode)]])
    /\ UNCHANGED <<osVars, supVars, backendVars>>

GocVerify(t) ==
    /\ task[t].pc = "g_verify"
    /\ \E o \in ListOutcomes : Commit(t, [goc_verify(Ctx(t), o) EXCEPT !.tk.vresp = IF o.res # "ok" THEN "fault" ELSE IF verify_hit(current_session_id, o.list) THEN "hit" ELSE "miss"], "list", o)
    /\ UNCHANGED <<osVars, supVars, backendVars>>

GocList(t) ==
    /\ task[t].pc = "g_list"
    /\ \E o \in ListOutcomes : Commit(t, goc_list(Ctx(t), o), "list", o)
    /\ UNCHANGED <<osVars, supVars, backendVars>>

\* POST /session: a created session is listed first.
Created(o) == IF o.res = "ok" THEN sessions' = <<Session(o.id, o.id)>> \o sessions /\ nextSess' = nextSess + 1 ELSE UNCHANGED <<sessions, nextSess>>

\* What a coroutine awaiting create_session() gets once the backend has
\* served POST /session: the backend's answer, or a timeout when the answer
\* does not arrive (the session, if one was created, exists all the same).
Received(o) == {o, Fault("timeout")}

\* line 30: the backend serves POST /session while get_or_create_session waits.
GocCreateServed(t) ==
    /\ task[t].pc = "g_create"
    /\ \E o \in CreateOutcomes : task' = [task EXCEPT ![t].resp = o, ![t].pc = "g_await"] /\ Created(o)
    /\ UNCHANGED <<osVars, supVars, msgCount, msgNew, msgLast, current_session_id, last_opencode_cwd, curSource>>

\* lines 30-31: the await returns.
GocCreateResume(t) ==
    /\ task[t].pc = "g_await"
    /\ \E o \in Received(task[t].resp) : Commit(t, goc_create([Ctx(t) EXCEPT !.tk.resp = o], o), "create", o)
    /\ UNCHANGED <<osVars, supVars, backendVars>>

SendSync(t) ==
    /\ task[t].pc = "m_send"
    /\ \E o \in SendOutcomes(task[t].session_id) : Commit(t, send_message(Ctx(t), o), "send", o)
    /\ UNCHANGED <<osVars, supVars, backendVars>>

\* The session holds some n0 messages when the prompt is submitted.
AsyncSubmit(t, counts) ==
    /\ task[t].pc = "a_submit"
    /\ \E o \in SessionCallOutcomes(task[t].session_id) : LET c2 == async_submit(Ctx(t), o) IN
        /\ Commit(t, c2, "submit", raise_for_status(o))
        /\ IF c2.tk.pc \in AsyncPcs THEN \E n0 \in counts : msgCount' = n0 /\ msgNew' = 0 /\ msgLast' = NoMessage ELSE KeepLog(c2)
    /\ UNCHANGED <<osVars, supVars, sessions, nextSess>>

AsyncBaseline(t) ==
    /\ task[t].pc = "a_baseline"
    /\ \E o \in SessionCallOutcomes(task[t].session_id) : LET c2 == async_baseline(Ctx(t), o, msgCount) IN Commit(t, c2, "baseline", o) /\ KeepLog(c2)
    /\ UNCHANGED <<osVars, supVars, sessions, nextSess>>

AsyncPoll(t) ==
    /\ task[t].pc = "a_poll"
    /\ \E o \in SessionCallOutcomes(task[t].session_id) : LET c2 == async_poll(Ctx(t), o, msgCount) IN Commit(t, c2, "poll", o) /\ KeepLog(c2)
    /\ UNCHANGED <<osVars, supVars, sessions, nextSess>>

\* handle_new_session()
NewSessionCall(t) ==
    /\ CanBegin(t)
    /\ Begin(t, [Ctx(t) EXCEPT !.tk = [NewTask(t, "new_session", "none") EXCEPT !.pc = "n_post"]])
    /\ UNCHANGED <<osVars, supVars, backendVars>>

\* ---- handle_new_session handled concurrently: the coroutine is suspended at
\* its await while the backend serves the request and other handlers run.

\* handle_new_session() is entered; other invocations may be suspended.
NewSessionStart(t) ==
    /\ task[t].pc \in {"idle", "done"}
    /\ Begin(t, [Ctx(t) EXCEPT !.tk = [NewTask(t, "new_session", "none") EXCEPT !.pc = "n_post"]])
    /\ UNCHANGED <<osVars, supVars, backendVars>>

\* line 139: the backend serves POST /session while the coroutine waits.
NewSessionServed(t) ==
    /\ task[t].pc = "n_post"
    /\ \E o \in CreateOutcomes : task' = [task EXCEPT ![t].resp = o, ![t].pc = "n_await"] /\ Created(o)
    /\ UNCHANGED <<osVars, supVars, msgCount, msgNew, msgLast, current_session_id, last_opencode_cwd, curSource>>

\* lines 139-143: the await returns and the handler runs to its return.
NewSessionResume(t) ==
    /\ task[t].pc = "n_await"
    /\ \E o \in Received(task[t].resp) : Commit(t, new_session([Ctx(t) EXCEPT !.tk.resp = o], o), "create", o)
    /\ UNCHANGED <<osVars, supVars, backendVars>>

\* handle_switch_session(session_id)
SwitchCall(t, sid) ==
    /\ CanBegin(t)
    /\ Begin(t, [Ctx(t) EXCEPT !.tk = [NewTask(t, "switch", "none") EXCEPT !.pc = "s_list", !.arg = sid]])
    /\ UNCHANGED <<osVars, supVars, backendVars>>

SwitchList(t) ==
    /\ task[t].pc = "s_list"
    /\ \E o \in ListOutcomes : Commit(t, switch_session(Ctx(t), o), "list", o)
    /\ UNCHANGED <<osVars, supVars, backendVars>>

\* runner.restart_opencode(log_path=log_path, cwd=cwd) called by a handler
CallRestart(t, cwd) ==
    /\ sup.pc \in {"idle", "done", "raised"} /\ nextPid <= MaxPid
    /\ sup' = [SupIdle EXCEPT !.pc = "r_check", !.op = "restart", !.cwd = cwd, !.caller = t, !.npid0 = nextPid]
    /\ prevSup' = SupSummary(sup)

\* handle_new_project(subdir): lines 155-162
NewProjectCall(t, cwd) ==
    /\ CanBegin(t)
    /\ CallRestart(t, cwd)
    /\ Begin(t, [Ctx(t) EXCEPT !.tk = [NewTask(t, "new_project", "none") EXCEPT !.pc = "p_restart", !.cwd = cwd]])
    /\ UNCHANGED <<osVars, backendVars>>

\* The handler takes the result of the supervisor call it made.
TakeRestart(t, c2) ==
    /\ sup.pc \in {"done", "raised"} /\ sup.caller = t
    /\ task' = [task EXCEPT ![t] = [c2.tk EXCEPT !.rsup = SupSummary(sup), !.rterm = sup.term, !.rvictim = sup.victim]]
    /\ current_session_id' = c2.cur
    /\ curSource' = c2.src
    /\ last_opencode_cwd' = c2.lcwd
    /\ sup' = SupIdle
    /\ UNCHANGED <<prevSup, osVars, backendVars>>

NewProjectRestarted(t) ==
    /\ task[t].pc = "p_restart"
    /\ TakeRestart(t, new_project_restarted(Ctx(t), sup))

\* line 168: the backend serves POST /session while handle_new_project waits.
NewProjectServed(t) ==
    /\ task[t].pc = "p_create"
    /\ \E o \in CreateOutcomes : task' = [task EXCEPT ![t].resp = o, ![t].pc = "p_await"] /\ Created(o)
    /\ UNCHANGED <<osVars, supVars, msgCount, msgNew, msgLast, current_session_id, last_opencode_cwd, curSource>>

\* lines 168-172: the await returns and the handler runs to its return.
NewProjectResume(t) ==
    /\ task[t].pc = "p_await"
    /\ \E o \in Received(task[t].resp) : Commit(t, new_project_created([Ctx(t) EXCEPT !.tk.resp = o], o), "create", o)
    /\ UNCHANGED <<osVars, supVars, backendVars>>

\* The characters names start with: a letter, '.', '/', a backslash, NUL,
\* tab, form feed, space, DEL and the no-break space.
EdgeChars == {97, 46, 47, 92, 0, 9, 12, 32, 127, 160}

\* Subdirectory names given to /newproj: up to MaxEdge characters followed by
\* a run of letters that brings the length to either side of the limit, and
\* the names "a/b" and "my-proj".
ProjNames == {e \o [i \in 1..n |-> 97] : e \in UNION {[1..m -> EdgeChars] : m \in 0..MaxEdge}, n \in {0, NAME_MAX - 1, NAME_MAX}} \cup {<<97, 47, 98>>, <<109, 121, 45, 112, 114, 111, 106>>}

\* handle_new_project(subdir), lines 155-162: the name is validated as given
\* and appended to ~/bots/ after strip(); a rejected name returns at once.
NewProjectNamed(t, name) ==
    /\ CanBegin(t)
    /\ LET tk == [NewTask(t, "new_project", "none") EXCEPT !.subdir = name] IN
        IF validate_proj_subdir(name) # "ok"
        THEN Begin(t, Done([Ctx(t) EXCEPT !.tk = tk], RetFailure("invalid_name", validate_proj_subdir(name)))) /\ UNCHANGED supVars
        ELSE CallRestart(t, "proj") /\ Begin(t, [Ctx(t) EXCEPT !.tk = [tk EXCEPT !.pc = "p_restart", !.cwd = "proj", !.appended = strip(name)]])
    /\ UNCHANGED <<osVars, backendVars>>

\* lines 201-203 of handle_start_opencode: a successful start records the
\* default directory when no directory was recorded before.
start_opencode_returned(c, s) == IF s.pc = "raised" THEN Done(c, RetRaised("exception")) ELSE IF ~s.ok THEN Done(c, RetFailure("start_failed", s.msg)) ELSE Done([c EXCEPT !.lcwd = IF c.lcwd = "none" THEN "default" ELSE c.lcwd], RetInfo(s.msg))

\* handle_start_opencode(log_path), line 200: runner.ensure_opencode_running(log_path=log_path)
StartOpencodeCall(t) ==
    /\ CanBegin(t)
    /\ sup.pc \in {"idle", "done", "raised"} /\ nextPid <= MaxPid
    /\ sup' = [SupIdle EXCEPT !.pc = "e_health1", !.op = "ensure", !.cwd = "default", !.caller = t, !.npid0 = nextPid]
    /\ prevSup' = SupSummary(sup)
    /\ Begin(t, [Ctx(t) EXCEPT !.tk = [NewTask(t, "start_opencode", "none") EXCEPT !.pc = "s_ensure"]])
    /\ UNCHANGED <<osVars, backendVars>>

StartOpencodeReturned(t) ==
    /\ task[t].pc = "s_ensure"
    /\ TakeRestart(t, start_opencode_returned(Ctx(t), sup))

\* set_last_opencode_cwd(cwd), lines 42-45: the front end records a directory.
set_last_opencode_cwd(cwd) ==
    /\ last_opencode_cwd' = cwd
    /\ UNCHANGED <<osVars, supVars, backendVars, current_session_id, curSource, task>>

\* lines 209-210: cwd = _last_opencode_cwd or runner._default_cwd()
RestartCwd(lcwd) == IF lcwd # "none" THEN lcwd ELSE "default"

\* handle_restart_opencode(log_path): lines 209-211
RestartOpencodeCall(t) ==
    /\ CanBegin(t)
    /\ CallRestart(t, RestartCwd(last_opencode_cwd))
    /\ Begin(t, [Ctx(t) EXCEPT !.tk = [NewTask(t, "restart", "none") EXCEPT !.pc = "r_restart", !.cwd = RestartCwd(last_opencode_cwd)], !.lcwd = RestartCwd(last_opencode_cwd)])
    /\ UNCHANGED <<osVars, backendVars>>

RestartOpencodeRestarted(t) ==
    /\ task[t].pc = "r_restart"
    /\ TakeRestart(t, restart_restarted(Ctx(t), sup))

RestartOpencodeList(t) ==
    /\ task[t].pc = "r_list"
    /\ \E o \in ListOutcomes : Commit(t, restart_listed(Ctx(t), o), "list", o)
    /\ UNCHANGED <<osVars, supVars, backendVars>>

\* ---------------------------------------------------- backend environment
\* Another client (or the backend) removes a session.
EnvDeleteSession ==
    /\ \E i \in 1..Len(sessions) : sessions' = SubSeq(sessions, 1, i - 1) \o SubSeq(sessions, i + 1, Len(sessions))
    /\ UNCHANGED <<nextSess, msgCount, msgNew, msgLast, osVars, supVars, botVars>>

\* The backend appends a message to the session that is being polled.
EnvAppend ==
    /\ \E t \in Tasks : task[t].pc \in AsyncPcs
    /\ BackendUp
    /\ msgNew < MaxAppend
    /\ \E m \in Messages : msgLast' = m
    /\ msgCount' = msgCount + 1
    /\ msgNew' = msgNew + 1
    /\ UNCHANGED <<sessions, nextSess, osVars, supVars, botVars>>

\* ----------------------------------------------------------- specifications
\* A backend that holds the port and answers its health endpoint.
HealthyBackend == Backend(1, TRUE, FALSE)

InitOS ==
    /\ bystander \in InitialBystanders
    /\ holder \in InitialHolders(bystander)
    /\ pending = {}
    /\ exited = {}
    /\ nextPid = bystander.pid + 2

InitNoSup ==
    /\ sup = SupIdle
    /\ prevSup = NoPrev

InitNoLog ==
    /\ msgCount = 0
    /\ msgNew = 0
    /\ msgLast = NoMessage

InitBot ==
    /\ current_session_id = 0
    /\ last_opencode_cwd = "none"
    /\ curSource = "none"
    /\ task = [t \in Tasks |-> TaskIdle]

\* The supervisor's public operations, called one at a time:
\* ensure_opencode_running without a directory, as handle_start_opencode
\* calls it, and restart_opencode with a project directory, as
\* handle_new_project calls it (the directory is only handed to Popen).
InitSup ==
    /\ InitOS
    /\ InitNoSup
    /\ InitNoLog
    /\ InitBot
    /\ sessions = <<>>
    /\ nextSess = 1

EnsureSteps == EnsureHealth1 \/ EnsureCheckPort \/ EnsureHealth2 \/ EnsureStart \/ EnsurePoll

RestartSteps == KillCheckPort \/ KillTerm \/ KillWait \/ KillForce \/ RestartStart \/ RestartPoll

NextSup ==
    \/ EnsureCall("default")
    \/ RestartCall("proj")
    \/ EnsureSteps
    \/ RestartSteps
    \/ EnvOS
    \/ EnvBystanderExit

SpecSup == InitSup /\ [][NextSup]_vars

\* handle_start_opencode, called one at a time, with the processes around it.
InitStart ==
    /\ holder \in {HealthyBackend, NoProc}
    /\ pending = {}
    /\ bystander = NoProc
    /\ exited = {}
    /\ nextPid = 2
    /\ InitNoSup
    /\ InitNoLog
    /\ InitBot
    /\ sessions = <<>>
    /\ nextSess = 1

NextStart ==
    \/ StartOpencodeCall(1)
    \/ StartOpencodeReturned(1)
    \/ \E cwd \in Dirs : set_last_opencode_cwd(cwd)
    \/ EnsureSteps
    \/ EnvOS

SpecStart == InitStart /\ [][NextStart]_vars

\* The session handlers, called one at a time. The port is held by a healthy
\* backend, by an unrelated server, or by nothing, and stays so.
InitialSessions == {<<>>, <<Session(1, 0)>>, <<Session(1, 1)>>}


Init ==
    /\ holder \in {HealthyBackend, NoProc, [pid |-> 1, kind |-> "other", ready |-> FALSE, cwd |-> "default", protected |-> FALSE]}
    /\ pending = {}
    /\ bystander = NoProc
    /\ exited = {}
    /\ nextPid = 2
    /\ InitNoSup
    /\ InitNoLog
    /\ InitBot
    /\ sessions \in InitialSessions
    /\ nextSess = Len(sessions) + 1

GocSteps(t) == GocVerify(t) \/ GocList(t) \/ GocCreateServed(t) \/ GocCreateResume(t)

Next ==
    \/ GocCall(1)
    \/ \E mode \in {"sync", "async"} : MessageCall(1, mode)
    \/ NewSessionCall(1)
    \/ \E sid \in 1..MaxSess : SwitchCall(1, sid)
    \/ GocSteps(1)
    \/ SendSync(1)
    \/ AsyncSubmit(1, {0})
    \/ AsyncBaseline(1)
    \/ AsyncPoll(1)
    \/ NewSessionServed(1)
    \/ NewSessionResume(1)
    \/ SwitchList(1)
    \/ EnvDeleteSession
    \/ EnvAppend

Spec == Init /\ [][Next]_vars

\* send_message by itself, on a session that already holds any number of messages.
InitPoll ==
    /\ holder = HealthyBackend
    /\ pending = {}
    /\ bystander = NoProc
    /\ exited = {}
    /\ nextPid = 2
    /\ InitNoSup
    /\ InitNoLog
    /\ InitBot
    /\ sessions = <<Session(1, 1)>>
    /\ nextSess = 2

NextPoll ==
    \/ \E mode \in {"sync", "async"} : SendCall(1, mode, 1)
    \/ SendSync(1)
    \/ AsyncSubmit(1, 0..(MSG_LIMIT + 1))
    \/ AsyncBaseline(1)
    \/ AsyncPoll(1)
    \/ EnvDeleteSession
    \/ EnvAppend

SpecPoll == InitPoll /\ [][NextPoll]_vars

\* The handlers that restart the backend, with the processes around them.
InitProj ==
    /\ holder \in {HealthyBackend, NoProc}
    /\ pending = {}
    /\ bystander = NoProc
    /\ exited = {}
    /\ nextPid = 2
    /\ InitNoSup
    /\ InitNoLog
    /\ InitBot
    /\ sessions \in InitialSessions
    /\ nextSess = Len(sessions) + 1

NextProj ==
    \/ GocCall(1)
    \/ \E cwd \in Dirs : NewProjectCall(1, cwd)
    \/ RestartOpencodeCall(1)
    \/ \E cwd \in Dirs : set_last_opencode_cwd(cwd)
    \/ GocSteps(1)
    \/ NewProjectRestarted(1)
    \/ NewProjectServed(1)
    \/ NewProjectResume(1)
    \/ RestartOpencodeRestarted(1)
    \/ RestartOpencodeList(1)
    \/ RestartSteps
    \/ EnvOS

SpecProj == InitProj /\ [][NextProj]_vars

\* Two handle_new_session requests handled concurrently on a healthy backend.
InitRace ==
    /\ holder = HealthyBackend
    /\ pending = {}
    /\ bystander = NoProc
    /\ exited = {}
    /\ nextPid = 2
    /\ InitNoSup
    /\ InitNoLog
    /\ InitBot
    /\ sessions \in InitialSessions
    /\ nextSess = Len(sessions) + 1

NextRace ==
    \/ \E t \in Tasks : NewSessionStart(t)
    \/ \E t \in Tasks : NewSessionServed(t)
    \/ \E t \in Tasks : NewSessionResume(t)
    \/ EnvDeleteSession

SpecRace == InitRace /\ [][NextRace]_vars

\* What an entry of the answer to GET /session can look like: an object
\* with or without an id, whose time is missing or a number, a string or an
\* object, or something that is no object.
EntryShapes == {Entry(TRUE, h, t, k) : h \in {0, 1}, t \in 0..MaxTime, k \in {"num", "str", "obj"}} \cup {Entry(FALSE, 0, 0, "none")}

\* handle_restart_opencode on a backend that answers GET /session with up to
\* MaxListed entries in any order; the entry at position i has the id i.
ListedSessions == UNION {{[i \in 1..n |-> [f[i] EXCEPT !.id = IF f[i].id = 0 THEN 0 ELSE i]] : f \in [1..n -> EntryShapes]} : n \in 0..MaxListed}

InitResume ==
    /\ holder \in {HealthyBackend, NoProc}
    /\ pending = {}
    /\ bystander = NoProc
    /\ exited = {}
    /\ nextPid = 2
    /\ InitNoSup
    /\ InitNoLog
    /\ InitBot
    /\ sessions \in ListedSessions
    /\ nextSess = Len(sessions) + 1

NextResume ==
    \/ RestartOpencodeCall(1)
    \/ RestartSteps
    \/ RestartOpencodeRestarted(1)
    \/ RestartOpencodeList(1)
    \/ EnvBind
    \/ EnvReady

SpecResume == InitResume /\ [][NextResume]_vars

\* handle_new_project called with subdirectory names, on a free port.
InitNamed ==
    /\ holder = NoProc
    /\ pending = {}
    /\ bystander = NoProc
    /\ exited = {}
    /\ nextPid = 2
    /\ InitNoSup
    /\ InitNoLog
    /\ InitBot
    /\ sessions = <<>>
    /\ nextSess = 1

NextNamed ==
    \/ \E name \in ProjNames : NewProjectNamed(1, name)
    \/ RestartSteps
    \/ NewProjectRestarted(1)
    \/ NewProjectServed(1)
    \/ NewProjectResume(1)
    \/ EnvBind
    \/ EnvReady

SpecNamed == InitNamed /\ [][NextNamed]_vars

\* _extract_final_result applied to messages of up to MaxParts parts: tool
\* parts with and without a text, text parts with and without a text.
MessageParts == {Part("tool", FALSE, <<>>), Part("tool", TRUE, <<99>>), Part("text", FALSE, <<>>), Part("text", TRUE, <<97>>), Part("text", TRUE, <<32, 98, 32>>), Part("text", TRUE, <<32>>), Part("text", TRUE, <<160, 98, 11>>)}

InitExtract ==
    /\ holder = HealthyBackend
    /\ pending = {}
    /\ bystander = NoProc
    /\ exited = {}
    /\ nextPid = 2
    /\ InitNoSup
    /\ InitBot
    /\ sessions = <<>>
    /\ nextSess = 1
    /\ msgCount = 1
    /\ msgNew = 0
    /\ \E parts \in UNION {[1..n -> MessageParts] : n \in 0..MaxParts} : msgLast = [parts |-> parts]

\* result = _extract_final_result(data)
ExtractCall ==
    /\ task[1].pc = "idle"
    /\ task' = [task EXCEPT ![1] = [TaskIdle EXCEPT !.op = "extract", !.pc = "done", !.ret = RetText(extract_final_result(msgLast))]]
    /\ UNCHANGED <<osVars, supVars, backendVars, current_session_id, last_opencode_cwd, curSource>>

SpecExtract == InitExtract /\ [][ExtractCall]_vars

\* Two messages handled concurrently, starting with an empty cache and a
\* backend that lists no session.
NextPair ==
    \/ \E t \in Tasks : MessageStart(t, "sync")
    \/ \E t \in Tasks : GocSteps(t)
    \/ \E t \in Tasks : SendSync(t)

SpecPair == InitSup /\ [][NextPair]_vars

\* ------------------------------------------------------------------ claims
\* C1: when the first health probe of ensure_opencode_running reports healthy,
\* the call returns success at once: nothing is spawned and no signal is sent
\* (so a second call in a row on a healthy backend spawns nothing).
C1_HealthyEnsureIsNoOp == (sup.op = "ensure" /\ sup.h1 = "yes") => (sup.pc = "done" /\ sup.ok /\ ~sup.startTried /\ sup.spawned = 0 /\ nextPid = sup.npid0 /\ sup.sigs = <<>>)

\* A second ensure call in a row on a healthy backend has returned success.
C1_Witness == sup.op = "ensure" /\ sup.pc = "done" /\ sup.h1 = "yes" /\ sup.ok /\ sup.spawned = 0 /\ prevSup.op = "ensure" /\ prevSup.ok /\ prevSup.msg = "already_running"

\* C2: when ensure_opencode_running finds the backend unhealthy and the port
\* occupied, and the backend is still unhealthy at the second probe, it returns
\* the port-conflict failure, spawns nothing and sends no signal.
C2_OccupiedUnhealthyFails == (sup.op = "ensure" /\ sup.h1 = "no" /\ sup.in_use /\ sup.h2 = "no") => (sup.pc = "done" /\ ~sup.ok /\ sup.msg = "port_conflict" /\ ~sup.startTried /\ sup.spawned = 0 /\ nextPid = sup.npid0 /\ sup.sigs = <<>>)

\* The conflict was reported and the process on the port is still there.
C2_Witness == sup.op = "ensure" /\ sup.pc = "done" /\ sup.h1 = "no" /\ sup.in_use /\ sup.h2 = "no" /\ sup.msg = "port_conflict" /\ sup.pid # 0 /\ holder.pid = sup.pid /\ holder.kind = "other"

\* C7 as claimed: whatever the outcome of its termination step, a restart
\* that has returned went through the spawn step.
C7_AlwaysReachesSpawn == (sup.op = "restart" /\ sup.pc = "done" /\ sup.term # "unset") => sup.startTried

\* C7 as amended: restart_opencode goes on to the spawn step when its
\* termination step found no owner to signal, saw the port free after the
\* graceful signal, delivered the forceful signal, or found the pid already
\* gone; when signalling or re-probing raised another error it returns the
\* cannot-terminate failure and spawns nothing.
C7_SpawnUnlessKillError == (sup.op = "restart" /\ sup.term # "unset") => IF sup.term \in {"no_owner", "freed", "forced", "gone"} THEN sup.pc = "r_start" \/ sup.startTried ELSE sup.term = "error" /\ sup.pc = "done" /\ ~sup.ok /\ sup.msg = "kill_failed" /\ ~sup.startTried /\ sup.spawned = 0 /\ nextPid = sup.npid0

\* The forceful signal was sent after ten occupied probes and the spawn followed.
C7_Witness == sup.op = "restart" /\ sup.term = "forced" /\ sup.startTried /\ sup.spawned = 1 /\ Len(sup.sigs) = 2

\* C8: ensure_opencode_running and restart_opencode never raise: every
\* failure of an OS-level step comes back as a (success, message) pair.
C8_SupervisorNeverRaises == sup.pc # "raised"

\* C3: when the first delivery of handle_message fails with a 404, the cached
\* id is cleared, a session is obtained afresh and the delivery is attempted
\* once more (never twice more), and the returned string is that of the retry's
\* outcome; any other failure of the first delivery ends the call with one
\* delivery attempt.
C3_RetryOutcome ==
    LET k == task[1] IN
    (k.op = "message" /\ k.dfail1 = "http404" /\ k.pc = "done") =>
        /\ k.last.ctx = "retry"
        /\ k.sends = 2 \/ (k.sends = 1 /\ k.last.call \in {"list", "create"} /\ k.last.res # "ok")
        /\ k.ret.kind \in {"text", "no_text_result", "call_failed"}
        /\ k.ret.kind = "call_failed" => (k.ret.err = IF k.last.res = "ok" THEN "timeout" ELSE k.last.res)
        /\ k.ret.kind = "text" => (k.last.res = "ok" /\ k.last.call \in {"send", "poll"} /\ k.ret.text = extract_final_result(k.last.data) /\ k.ret.text # <<>>)
        /\ k.ret.kind = "no_text_result" => (k.last.res = "ok" /\ k.last.call = "send" /\ extract_final_result(k.last.data) = <<>>)

C3_NotFoundRetriesOnce ==
    LET k == task[1] IN
    /\ (k.op = "message" /\ k.dfail1 = "http404") => (k.cleared /\ k.gocs = 2 /\ k.sends <= 2 /\ k.pc # "g_verify" /\ (k.pc = "g_list" => current_session_id = 0))
    /\ C3_RetryOutcome
    /\ (k.op = "message" /\ k.dfail1 \notin {"none", "http404"}) => (k.pc = "done" /\ k.sends = 1 /\ k.gocs = 1 /\ ~k.cleared)

\* A stale id was rejected with 404 and the retry delivered a text.
C3_Witness == LET k == task[1] IN k.op = "message" /\ k.pc = "done" /\ k.dfail1 = "http404" /\ k.sends = 2 /\ k.ret.kind = "text" /\ k.session_id # k.cur0 /\ k.cur0 # 0

\* C4: once a delivery attempt of handle_message has timed out (request
\* timeout or poll deadline) the call is over: no further message is submitted.
C4_TimeoutNeverRetried == LET k == task[1] IN k.op = "message" => (~k.sendAfterTimeout /\ (k.timedOut => k.pc = "done" /\ k.ret.kind \in {"timeout_guidance", "call_failed"}))

\* The poll deadline elapsed on the first attempt and the call returned.
C4_Witness == LET k == task[1] IN k.op = "message" /\ k.pc = "done" /\ k.timedOut /\ k.mode = "async" /\ k.polls = MaxPolls /\ k.sends = 1 /\ k.last.res = "ok"

\* C5: submit-and-poll returns only a non-empty text, taken from a poll that
\* saw more messages than the baseline; a new message without text leaves it
\* polling; and when the deadline elapses without such a text the outcome is
\* the timeout failure.
C5_NoSilentEmptySuccess ==
    LET k == task[1] IN
    (k.op = "send" /\ k.mode = "async") =>
        /\ (k.pc = "done" /\ k.ret.kind = "text") => (k.ret.text # <<>> /\ k.seenNew /\ k.ret.text = extract_final_result(k.last.data))
        /\ (k.pc = "done" /\ k.last.call = "poll" /\ k.last.res = "ok" /\ ~k.seenNew) => (k.ret = RetRaised("timeout") /\ k.polls = MaxPolls)
        /\ (k.last.call = "poll" /\ k.last.res = "ok" /\ extract_final_result(k.last.data) = <<>> /\ k.polls < MaxPolls) => k.pc = "a_poll"
        /\ k.pc = "done" => k.ret.kind \in {"text", "raised"}

\* The count never passed the baseline and the deadline ended the delivery.
C5_Witness == LET k == task[1] IN k.op = "send" /\ k.mode = "async" /\ k.pc = "done" /\ ~k.seenNew /\ k.polls = MaxPolls /\ k.ret = RetRaised("timeout") /\ k.n_before = 0

\* C6: a handle_new_project call that terminated the running backend (the
\* forceful signal was delivered to the process on the port) or spawned one
\* in the new directory does not end with the session id that was cached
\* before it.
C6_RestartInvalidatesCache == LET k == task[1] IN (k.op = "new_project" /\ k.pc = "done" /\ k.cur0 # 0 /\ (k.rvictim = "holder" \/ k.rsup.spawned > 0)) => current_session_id # k.cur0

\* C9: a non-empty current session id was listed by the backend, or returned
\* by a create call, when it was stored, and an id that failed verification
\* is not kept.
C9_CurrentIdIsBackendId == (current_session_id # 0 => curSource \in {"listed", "created"}) /\ ((task[1].pc = "g_list" /\ task[1].vresp \in {"miss", "fault"}) => current_session_id = 0)

\* C10: when the session list contains the cached id, get_or_create_session
\* returns it after that one list call, keeps the cache and creates nothing;
\* right after handle_new_session it returns the id just created.
C10_CachedIdReused == LET k == task[1] IN (k.op = "goc" /\ k.vresp = "hit") => (k.pc = "done" /\ k.ret = RetSid(k.cur0) /\ current_session_id = k.cur0 /\ k.cur0 # 0 /\ k.creates = 0 /\ k.last.call = "list" /\ (k.after_new # 0 => k.ret.sid = k.after_new))

\* handle_new_session created an id and the next call returned it without a create.
C10_Witness == LET k == task[1] IN k.op = "goc" /\ k.pc = "done" /\ k.vresp = "hit" /\ k.after_new # 0 /\ k.ret.sid = k.after_new /\ k.creates = 0 /\ curSource = "created"

\* C11: when two handle_new_session requests, handled in any interleaving,
\* have both finished with a created session, the current session id is one
\* of the two created ids (the one of the request that resumed last), never
\* empty and never another id.
C11_LastWriterWins == LET a == task[1] b == task[2] IN (a.op = "new_session" /\ b.op = "new_session" /\ a.pc = "done" /\ b.pc = "done" /\ a.ret.kind = "switched_new" /\ b.ret.kind = "switched_new") => (current_session_id # 0 /\ current_session_id \in {a.resp.id, b.resp.id} /\ a.resp.id # b.resp.id /\ curSource = "created")

\* The request whose session was created first resumed last and its id is current.
C11_Witness == LET a == task[1] b == task[2] IN a.op = "new_session" /\ b.op = "new_session" /\ a.pc = "done" /\ b.pc = "done" /\ a.ret.kind = "switched_new" /\ b.ret.kind = "switched_new" /\ a.resp.id # 0 /\ a.resp.id < b.resp.id /\ current_session_id = a.resp.id

\* C12: after a successful handle_restart_opencode whose session listing
\* returned at least one session (every entry listed is a session with an
\* id), the current session id is the id of a listed session whose activity
\* timestamp is the greatest; a session without a timestamp is current only
\* when no listed session has one.
C12_ResumesMostRecent == LET k == task[1] IN (k.op = "restart" /\ k.pc = "done" /\ k.rsup.ok /\ k.last.call = "list" /\ k.last.res = "ok" /\ sessions # <<>> /\ \A i \in 1..Len(sessions) : sessions[i].object /\ sessions[i].id # 0) => \E i \in 1..Len(sessions) : sessions[i].id = current_session_id /\ (\A j \in 1..Len(sessions) : sessions[j].time <= sessions[i].time) /\ (sessions[i].time = 0 => \A j \in 1..Len(sessions) : sessions[j].time = 0)

\* A control character: the C0 controls, DEL and the C1 controls.
IsControl(ch) == ch < 32 \/ ch \in 127..159

\* C13: handle_new_project restarts the backend for a subdirectory name only
\* when the name appended to ~/bots/ has 1 to 64 characters, no path separator
\* or control character, no leading '.' and no '..'; ".." and "a/b" are
\* rejected without a restart and "my-proj" is accepted.
C13_RestartsOnlyInValidDir ==
    LET k == task[1]
        n == k.appended
        restarting == k.pc \in {"p_restart", "p_create", "p_await"} \/ (k.pc = "done" /\ k.ret.kind # "invalid_name")
    IN
    (k.op = "new_project") =>
        /\ restarting => (Len(n) >= 1 /\ Len(n) <= NAME_MAX /\ (\A i \in 1..Len(n) : n[i] \notin {47, 92} /\ ~IsControl(n[i])) /\ n[1] # 46 /\ (\A i \in 1..(Len(n) - 1) : ~(n[i] = 46 /\ n[i + 1] = 46)))
        /\ (k.pc = "done" /\ k.ret.kind = "invalid_name") => (k.rsup = NoPrev /\ k.appended = <<>>)
        /\ k.subdir \in {<<46, 46>>, <<97, 47, 98>>} => (k.pc = "done" /\ k.ret.kind = "invalid_name")
        /\ k.subdir = <<109, 121, 45, 112, 114, 111, 106>> => restarting

\* C14: the result is the whitespace-trimmed text of the last part
\* whose type is "text" (a part without a text has the empty text), and the
\* empty string when the message has no part of type "text".
C14_LastTextTypedPart ==
    LET k == task[1]
        p == msgLast.parts
        I == {i \in 1..Len(p) : p[i].type = "text"}
        last == CHOOSE i \in I : \A j \in I : j <= i
    IN
    (k.op = "extract" /\ k.pc = "done") => k.ret = RetText(IF I = {} THEN <<>> ELSE IF p[last].has_text THEN strip(p[last].text) ELSE <<>>)

\* C15: in submit-and-poll mode, a poll that takes place after the backend
\* appended a message with a non-empty text (the newest message of the
\* session at that poll) ends the delivery with that text, whatever the
\* number of messages held before the submit and whether the append came
\* before or after the baseline was read.
C15_AppendedTextIsReturned == LET k == task[1] IN (k.op = "send" /\ k.mode = "async" /\ k.last.call = "poll" /\ k.last.res = "ok" /\ k.last.data # NoMessage /\ extract_final_result(k.last.data) # <<>>) => (k.pc = "done" /\ k.ret = RetText(extract_final_result(k.last.data)))

\* C16: in the termination step of restart_opencode the forceful signal is
\* sent only as the second signal, to the pid that got the graceful signal,
\* after ten probes in a row found the port occupied; when a probe finds the
\* port free (or fails) no forceful signal is sent, and when no owner pid was
\* resolved no signal is sent at all.
C16_ForceOnlyAfterGracePeriod ==
    (sup.op = "restart") =>
        /\ Len(sup.sigs) <= 2
        /\ sup.sigs # <<>> => (sup.sigs[1] = <<sup.pid, SIGTERM>> /\ sup.pid # 0 /\ sup.in_use)
        /\ Len(sup.sigs) = 2 => (sup.sigs[2] = <<sup.pid, SIGKILL>> /\ sup.term = "forced")
        /\ sup.pc = "r_kill9" => (sup.i = KILL_POLLS /\ Len(sup.sigs) = 1)
        /\ sup.pc = "r_wait" => (sup.i < KILL_POLLS /\ Len(sup.sigs) = 1)
        /\ sup.term \in {"freed", "error", "gone"} => Len(sup.sigs) <= 1
        /\ sup.term = "no_owner" => sup.sigs = <<>>

\* Ten occupied probes followed the graceful signal and the forceful one was sent.
C16_Witness == sup.op = "restart" /\ sup.pc = "r_start" /\ sup.term = "forced" /\ sup.i = KILL_POLLS /\ sup.sigs = <<<<sup.pid, SIGTERM>>, <<sup.pid, SIGKILL>>>> /\ holder.pid = 0

\* C17: after a spawn, ensure_opencode_running makes at most 10 health polls
\* and restart_opencode at most 15; the first healthy poll ends the call
\* with success (the call goes on polling only after polls that were not
\* answered "healthy": true, and succeeds exactly when its last poll was
\* answered so), the last unhealthy poll
\* of the budget ends it with failure, and the call sends no signal to the
\* process it spawned.
C17_BoundedHealthPolls ==
    /\ sup.pc = "e_poll" => (sup.i < ENSURE_HEALTH_POLLS /\ sup.spawned = 1 /\ sup.hp = (IF sup.i = 0 THEN "unset" ELSE "other"))
    /\ sup.pc = "r_poll" => (sup.i < RESTART_HEALTH_POLLS /\ sup.spawned = 1 /\ sup.hp = (IF sup.i = 0 THEN "unset" ELSE "other"))
    /\ (sup.pc = "done" /\ sup.spawned = 1) => (sup.ok <=> sup.hp = "ok_true")
    /\ (sup.op = "ensure" /\ sup.pc = "done" /\ sup.spawned = 1) => (sup.i >= 1 /\ sup.i <= ENSURE_HEALTH_POLLS /\ sup.sigs = <<>> /\ (IF sup.ok THEN sup.msg = "started" ELSE sup.i = ENSURE_HEALTH_POLLS /\ sup.msg = "unhealthy_after_start"))
    /\ (sup.op = "restart" /\ sup.pc = "done" /\ sup.spawned = 1) => (sup.i >= 1 /\ sup.i <= RESTART_HEALTH_POLLS /\ (\A k \in 1..Len(sup.sigs) : sup.sigs[k][1] # sup.npid0) /\ (IF sup.ok THEN sup.msg = "restarted" ELSE sup.i = RESTART_HEALTH_POLLS /\ sup.msg = "unhealthy_after_restart"))
    /\ sup.spawned <= 1

\* Fifteen unhealthy polls ended a restart with failure and the spawned process is still there.
C17_Witness == sup.op = "restart" /\ sup.pc = "done" /\ ~sup.ok /\ sup.i = RESTART_HEALTH_POLLS /\ sup.msg = "unhealthy_after_restart" /\ sup.spawned = 1 /\ ((\E p \in pending : p.pid = sup.npid0) \/ holder.pid = sup.npid0)

\* C18: when a delivery of handle_message, in the first attempt or in the
\* retry after a 404, ends the call by timing out (request timeout or poll
\* deadline), the string returned is the timeout guidance.
C18_TimeoutGetsGuidance == LET k == task[1] IN (k.op = "message" /\ k.pc = "done" /\ k.last.call \in {"send", "submit", "baseline", "poll"} /\ (k.last.res = "timeout" \/ (k.last.call = "poll" /\ k.last.res = "ok" /\ k.polls = MaxPolls /\ k.ret.kind # "text"))) => k.ret = RetTimeout

\* C20: handle_message always returns a string: a text, the placeholder for
\* an empty result, the timeout guidance or a failure string; a failed
\* listing, creation or delivery (parse failures included), in the first
\* attempt or in the retry, never leaves the handler as an exception, and a
\* delivery that succeeds with an empty result gives the placeholder.
C20_MessageAlwaysReturnsString ==
    LET k == task[1] IN
    (k.op = "message" /\ k.pc = "done") =>
        /\ k.ret.kind \in {"text", "no_text_result", "timeout_guidance", "call_failed"}
        /\ k.ret.kind = "text" => k.ret.text # <<>>
        /\ k.last.res # "ok" => (k.ret.kind \in {"timeout_guidance", "call_failed"} /\ (k.ret.kind = "call_failed" => k.ret.err = k.last.res))
        /\ (k.last.res = "ok" /\ k.last.call \in {"send", "poll"} /\ k.polls < MaxPolls) => k.ret = (IF extract_final_result(k.last.data) = <<>> THEN RetPlaceholder ELSE RetText(extract_final_result(k.last.data)))

\* The retry after a 404 delivered an empty result and the placeholder was returned.
C20_Witness == LET k == task[1] IN k.op = "message" /\ k.pc = "done" /\ k.dfail1 = "http404" /\ k.last.ctx = "retry" /\ k.last.call = "send" /\ k.last.res = "ok" /\ k.ret = RetPlaceholder

\* C19: restart_opencode spawns only when no other live process holds the
\* port (the child it has just spawned is the only candidate for the port),
\* and a restart that reported success is served by the process it spawned.
C19_OneBackendPerPort ==
    (sup.op = "restart") =>
        /\ (sup.spawned = 1 /\ (\E p \in pending : p.pid = sup.npid0)) => holder.pid = 0
        /\ (sup.pc = "done" /\ sup.ok /\ holder.pid # 0) => holder.pid = sup.npid0

\* C21: when two messages are handled concurrently, both entered with an
\* empty session cache on a backend listing no session, their
\* get_or_create_session calls create at most one session between them and
\* both messages are delivered to the same session.
C21_OneSessionForBothMessages == LET a == task[1] b == task[2] IN (a.op = "message" /\ b.op = "message" /\ a.cur0 = 0 /\ b.cur0 = 0) => (Len(sessions) <= 1 /\ ((a.pc = "done" /\ b.pc = "done" /\ a.ret.kind = "text" /\ b.ret.kind = "text") => a.session_id = b.session_id))

====
